---------------------------- MODULE Spec2Model ----------------------------
(***************************************************************************)
(* Model of the Akai APC40 mixer control-device driver                     *)
(* (zynthian_ctrldev_akai_apc40_mixer.py).                                 *)
(*                                                                         *)
(* The driver owns one piece of state, midimix_bank.  Everything else it   *)
(* touches belongs to collaborators (mixer, layer list, audio recorder,    *)
(* sequencer, MIDI transport).  The collaborators are modelled as plain    *)
(* stores which accept every index they are handed; every message the      *)
(* driver sends and every mutating call it makes is recorded, in program   *)
(* order, in the effect log of the operation (variable log).               *)
(*                                                                         *)
(* Levels and balances are floats in the driver.  They are kept here as    *)
(* integer numerators over 127 (level = n/127, balance = n/127); the       *)
(* values the model draws (0, 64, 127 as CC values; -1, 0, 1 as initial    *)
(* balances) are ones for which the float computation of convert_range     *)
(* agrees with the exact one.                                              *)
(***************************************************************************)
EXTENDS Integers, Sequences, FiniteSets, TLC

---------------------------------------------------------------------------
(* Module-level constants of the driver *)
COLOUR_OFF == 0
COLOUR_GREEN == 1
COLOUR_GREEN_BLINK == 2
COLOUR_RED == 3
COLOUR_RED_BLINK == 4
COLOUR_ORANGE == 5
COLOUR_ORANGE_BLINK == 6
CTRL_MODE_REQ == <<240, 71, 0, 115, 96, 0, 4, 66, 0, 0, 0, 247>>
PAD_NOTE_MIN == 53
PAD_NOTE_MAX == 57
PAD_WIDTH == 8
PAD_HEIGHT == 5

(* Class attributes *)
bank_left_note == 89
bank_right_note == 90
mute_note == 50
solo_note == 49
rec_note == 51
panknobs_ccnum == <<48, 49, 50, 51, 52, 53, 54, 55>>
ccknobs_ccnum == <<16, 17, 18, 19, 20, 21, 22, 23>>
fader_ccnum == 7
master_select_nnum == 80
master_chnum == 0
master_ccnum == 14
pan_selected == TRUE
pan_button == 87

(* Play states of the sequencer, as update_pad compares them *)
SEQ_STOPPED == 0
SEQ_PLAYING == 1
SEQ_STOPPING == 2
SEQ_STARTING == 3

(* Ranges of the two loops of light_off *)
LIGHT_OFF_NOTES == 128
LIGHT_OFF_CHANNELS == 8
(* Number of strips refresh walks over *)
REFRESH_STRIPS == 8

---------------------------------------------------------------------------
(* Bounds of the model: the number of operations a behaviour holds.  All   *)
(* but the last of them are set-up operations (init, end, refresh and the  *)
(* events of SetupWords); the last one is any operation on any input.      *)
MaxSteps == 3

(* Largest strip index the driver can compute: channel 15 in bank 1 *)
MaxIndex == 15 + 8
StripIdx == 0..MaxIndex
(* Live strip counts, root-layer counts the model starts from *)
StripCounts == {0, 3, 8, 11, 16}

---------------------------------------------------------------------------
(* Effects: outbound messages and mutating collaborator calls *)
NoteOn(ch, note, vel) == [k |-> "note_on", ch |-> ch, num |-> note, val |-> vel]
ControlChange(ch, cc, v) == [k |-> "ccontrol_change", ch |-> ch, num |-> cc, val |-> v]
Sysex(bytes) == [k |-> "sysex", bytes |-> bytes]
SetBank(b) == [k |-> "midimix_bank", val |-> b]
Call(name, idx, v) == [k |-> name, idx |-> idx, val |-> v]

MessageKinds == {"note_on", "ccontrol_change", "sysex"}
MixerCalls == {"set_mute", "set_solo", "set_level", "set_balance"}
IsMessage(e) == e.k \in MessageKinds
Sends(l) == SelectSeq(l, IsMessage)
IsMixerCall(e) == e.k \in MixerCalls

---------------------------------------------------------------------------
VARIABLES
  midimix_bank,           \* the driver's bank selector
  rec_mode,               \* class attribute rec_mode
  zctrls_len,             \* len(zynmixer.zctrls): live strip count
  mute, solo,             \* mixer store: index -> 0/1
  level, balance,         \* mixer store: index -> numerator over 127
  master_level,           \* main_mixbus_strip level, numerator over 127
  pending_refresh_queue,  \* zyngui_mixer.pending_refresh_queue
  layers_len,             \* len(get_root_layers()); layers[i].midi_chan = i
  curlayer,               \* index of zyngui.curlayer in the layer list, -1 for None
  armed,                  \* audio_recorder: midi_chan -> 0/1
  selected_chain,         \* last index given to select_chain_by_index, -1 for none
  toggled_pads,           \* pads whose play state was toggled an odd number of times
  zynpad_columns,         \* width and height of the sequencer's pad grid
  op, arg,                \* the last operation and its input
  decoded,                \* the fields midi_event decoded from its last word
  pre,                    \* the state the last operation started from
  log,                    \* effects of the last operation, in program order
  ret,                    \* "True", "False", "None", or "raised"
  exc,                    \* exception that left the last operation, "none" if none
  leds,                   \* device: velocity of the last NoteOn per (channel, note), -1 before any
  sync,                   \* "init" after init, "synced" after init, refresh and strip or bank presses
  steps

collab == <<rec_mode, zctrls_len, mute, solo, level, balance, master_level,
            pending_refresh_queue, layers_len, curlayer, armed, selected_chain,
            toggled_pads, zynpad_columns>>
vars == <<midimix_bank, collab, op, arg, decoded, pre, log, ret, exc, leds, sync, steps>>

---------------------------------------------------------------------------
(* int() of a quotient: truncation toward zero *)
TruncDiv(a, b) == IF a >= 0 THEN a \div b ELSE -((-a) \div b)

(* convert_range for a value given as value127/127 *)
convert_range(value127, old_min, old_max, new_min, new_max) ==
  LET old_range == old_max - old_min
      new_range == new_max - new_min
  IN  TruncDiv((value127 - 127 * old_min) * new_range + new_min * old_range * 127,
               old_range * 127)

(* Decoding of the 32-bit event word *)
Pack(idev, status, d1, d2) == idev * 16777216 + status * 65536 + d1 * 256 + d2
EvType(ev) == (ev \div 1048576) % 16
EvDev(ev) == (ev \div 16777216) % 256
decode_channel(ev) == ((ev \div 65536) % 256) % 16
(* A number field read without its 7-bit mask *)
EvNote_NoMask(ev) == (ev \div 256) % 256
EvNote(ev) == (ev \div 256) % 128
EvVal(ev) == ev % 128

(* The locals midi_event decodes: evtype, idev and channel on entry, the   *)
(* number (note or ccnum) and value (val or ccval) at the head of the      *)
(* NoteOn and ControlChange branches, by the same bits in both.            *)
Decode(ev) ==
  [evtype |-> EvType(ev), idev |-> EvDev(ev), channel |-> decode_channel(ev),
   number |-> EvNote(ev), value |-> EvVal(ev)]

(* No word decoded: the last operation was not midi_event *)
NotDecoded == [evtype |-> -1, idev |-> -1, channel |-> -1, number |-> -1, value |-> -1]

(* A bank offset that is never added *)
BankIndex_NoOffset(channel, bank) == channel

(* index = channel; if self.midimix_bank: index += 8 *)
BankIndex(channel, bank) == IF bank # 0 THEN channel + 8 ELSE channel

---------------------------------------------------------------------------
(* State after construction.  midimix_bank is 0; the collaborators' state  *)
(* is whatever the host holds at that moment and is drawn from small sets. *)
Max0(n) == IF n < 0 THEN 0 ELSE n

(* The mute and solo LEDs of the device, one per (channel, note) *)
LedNotes == {mute_note, solo_note}
LedKeys == (0..15) \X LedNotes

(* What the LEDs show once the device has received the NoteOns of l *)
RECURSIVE LedsFrom(_, _, _)
LedsFrom(shown, t, k) ==
  IF k > Len(t) THEN shown
  ELSE LedsFrom([shown EXCEPT ![<<t[k].ch, t[k].num>>] = t[k].val], t, k + 1)

LedsAfter(old, l) ==
  LedsFrom(old, SelectSeq(l, LAMBDA e : e.k = "note_on" /\ e.num \in LedNotes), 1)

(* The state an operation starts from *)
Snapshot ==
  [bank |-> midimix_bank, mute |-> mute, solo |-> solo, level |-> level,
   balance |-> balance, master |-> master_level, pending |-> pending_refresh_queue,
   armed |-> armed, selected |-> selected_chain, toggled |-> toggled_pads,
   op |-> op, arg |-> arg, log |-> log]

Init ==
  /\ midimix_bank = 0
  /\ rec_mode \in {0, 1}
  /\ zctrls_len \in StripCounts
  /\ mute = [i \in StripIdx |-> IF i < zctrls_len /\ i % 3 = 0 THEN 1 ELSE 0]
  /\ solo = [i \in StripIdx |-> IF i < zctrls_len /\ i % 4 = 1 THEN 1 ELSE 0]
  /\ level = [i \in StripIdx |-> IF i < zctrls_len THEN 100 ELSE 0]
  /\ balance = [i \in StripIdx |->
                  IF i >= zctrls_len THEN 0
                  ELSE IF i % 3 = 0 THEN -127 ELSE IF i % 3 = 1 THEN 0 ELSE 127]
  /\ master_level = 100
  /\ pending_refresh_queue = {}
  /\ layers_len \in {Max0(zctrls_len - 1), Max0(zctrls_len - 3)}
  /\ curlayer = IF layers_len > 1 THEN 1 ELSE -1
  /\ armed = [c \in StripIdx |-> c % 2]
  /\ selected_chain = -1
  /\ toggled_pads = {}
  /\ zynpad_columns = 4
  /\ op = "none"
  /\ arg = <<>>
  /\ decoded = NotDecoded
  /\ log = <<>>
  /\ ret = "None"
  /\ exc = "none"
  /\ leds = [key \in LedKeys |-> -1]
  /\ sync = "none"
  /\ steps = 0
  /\ pre = Snapshot

---------------------------------------------------------------------------
(* A light_off whose note loop stops one note short *)
light_off_ShortRange ==
  [n \in 1..((LIGHT_OFF_NOTES - 1) * LIGHT_OFF_CHANNELS) |->
     NoteOn((n - 1) % LIGHT_OFF_CHANNELS, (n - 1) \div LIGHT_OFF_CHANNELS, 0)]

(* light_off: for note in range(0, 128): for channel in range(8): note_on 0 *)
light_off ==
  [n \in 1..(LIGHT_OFF_NOTES * LIGHT_OFF_CHANNELS) |->
     NoteOn((n - 1) % LIGHT_OFF_CHANNELS, (n - 1) \div LIGHT_OFF_CHANNELS, 0)]

setup_sysex == <<Sysex(CTRL_MODE_REQ)>>

setup_pan_led_rings == [n \in 1..Len(panknobs_ccnum) |-> ControlChange(0, panknobs_ccnum[n] + 8, 3)]

setup_cc_led_rings == [n \in 1..Len(ccknobs_ccnum) |-> ControlChange(0, ccknobs_ccnum[n] + 8, 2)]

(* An init that requests the mode before it clears the LEDs *)
init_log_SysexFirst ==
  <<SetBank(0)>> \o setup_sysex \o light_off \o setup_pan_led_rings \o setup_cc_led_rings

(* The effects of init, in program order *)
init_log ==
  <<SetBank(0)>> \o light_off \o setup_sysex \o setup_pan_led_rings \o setup_cc_led_rings

(* The effects of end, in program order *)
end_log == light_off

---------------------------------------------------------------------------
(* refresh.  panPosition is a local that only the in-range branch assigns; *)
(* Unassigned stands for the unbound local, and reading it raises.         *)
Unassigned == -1

RefreshHead(bank) ==
  (IF pan_selected THEN <<NoteOn(0, pan_button, 1)>> ELSE <<>>)
  \o (IF bank # 0
      THEN <<NoteOn(0, bank_left_note, 0), NoteOn(0, bank_right_note, 1)>>
      ELSE <<NoteOn(0, bank_left_note, 1), NoteOn(0, bank_right_note, 0)>>)

RefreshIndex0(bank) == IF bank # 0 THEN 8 ELSE 0

(* rec LED of one strip *)
RefreshRec(index) ==
  IF rec_mode = 0
  THEN (IF index < layers_len /\ curlayer # -1 /\ index = curlayer THEN 1 ELSE 0)
  ELSE (IF index < layers_len - 1 THEN armed[index] ELSE 0)

(* Channel on which refresh addresses the LEDs of a strip: the loop sends *)
(* on channel `index`, the logical index, 8..15 in bank 1                *)
RefreshChannel(index) == index

RECURSIVE RefreshStrips(_, _, _, _)
RefreshStrips(index0, i, panPosition, acc) ==
  IF i = REFRESH_STRIPS THEN [log |-> acc, exc |-> "none"]
  ELSE
    LET index == index0 + i
        inrange == index < zctrls_len
        m == IF inrange THEN mute[index] ELSE 0
        s == IF inrange THEN solo[index] ELSE 0
        pan == IF inrange THEN convert_range(balance[index], -1, 1, 0, 127)
               ELSE panPosition
        sent == acc \o <<NoteOn(RefreshChannel(index), mute_note, m),
                         NoteOn(RefreshChannel(index), solo_note, s),
                         NoteOn(RefreshChannel(index), rec_note, RefreshRec(index))>>
    IN  IF pan = Unassigned
        THEN [log |-> sent, exc |-> "UnboundLocalError"]
        ELSE RefreshStrips(index0, i + 1, pan,
               sent \o <<ControlChange(0, panknobs_ccnum[(index % 8) + 1], pan)>>)

(* Effects and outcome of refresh when the bank selector is bank *)
Refresh(bank) == RefreshStrips(RefreshIndex0(bank), 0, Unassigned, RefreshHead(bank))

---------------------------------------------------------------------------
(* The events that may be followed by further operations *)
SetupWords == {Pack(0, 144, bank_left_note, 100), Pack(0, 144, bank_right_note, 100),
               Pack(0, 144 + 3, mute_note, 100), Pack(0, 144 + 3, solo_note, 100)}

CanStep ==
  /\ steps < MaxSteps
  /\ \/ op \in {"none", "init", "end", "refresh"}
     \/ op = "midi_event" /\ arg[1] \in SetupWords

(* A NoteOn of a mute, solo or bank button on one of the eight channels *)
IsStripOrBankPress(ev) ==
  /\ EvType(ev) = 9
  /\ decode_channel(ev) <= 7
  /\ EvNote(ev) \in {mute_note, solo_note, bank_left_note, bank_right_note}

(* Where the session stands after operation name with input a *)
SyncAfter(name, a) ==
  IF name = "init" THEN "init"
  ELSE IF name = "refresh" /\ sync = "init" THEN "synced"
  ELSE IF name = "midi_event" /\ sync = "synced" /\ IsStripOrBankPress(a[1]) THEN "synced"
  ELSE "none"

(* The device receives what the operation sent *)
Delivered == leds' = LedsAfter(leds, log')

Step(name, a) ==
  /\ steps' = steps + 1
  /\ sync' = SyncAfter(name, a)
  /\ op' = name
  /\ arg' = a
  /\ decoded' = (IF name = "midi_event" THEN Decode(a[1]) ELSE NotDecoded)
  /\ pre' = Snapshot

init ==
  /\ CanStep
  /\ Step("init", <<>>)
  /\ midimix_bank' = 0
  /\ log' = init_log
  /\ ret' = "None"
  /\ exc' = "none"
  /\ Delivered
  /\ UNCHANGED collab

(* An end that also resets the bank selector *)
end_ResetsBank ==
  /\ CanStep
  /\ Step("end", <<>>)
  /\ midimix_bank' = 0
  /\ log' = end_log
  /\ ret' = "None"
  /\ exc' = "none"
  /\ Delivered
  /\ UNCHANGED collab

end ==
  /\ CanStep
  /\ Step("end", <<>>)
  /\ log' = end_log
  /\ ret' = "None"
  /\ exc' = "none"
  /\ Delivered
  /\ UNCHANGED <<midimix_bank, collab>>

(* A refresh that flips the bank selector as it renders *)
refresh_FlipsBank ==
  /\ CanStep
  /\ Step("refresh", <<>>)
  /\ \E r \in {Refresh(midimix_bank)} :
         /\ log' = r.log
         /\ exc' = r.exc
         /\ ret' = IF r.exc = "none" THEN "None" ELSE "raised"
  /\ Delivered
  /\ midimix_bank' = 1 - midimix_bank
  /\ UNCHANGED collab

refresh ==
  /\ CanStep
  /\ Step("refresh", <<>>)
  /\ \E r \in {Refresh(midimix_bank)} :
         /\ log' = r.log
         /\ exc' = r.exc
         /\ ret' = IF r.exc = "none" THEN "None" ELSE "raised"
  /\ Delivered
  /\ UNCHANGED <<midimix_bank, collab>>

---------------------------------------------------------------------------
(* zynpad.get_pad_from_xy as the driver uses it: a pad index, negative     *)
(* when the sequencer's grid has no pad at (x, y).                         *)
get_pad_from_xy(x, y) ==
  IF x < zynpad_columns /\ y < zynpad_columns THEN x * zynpad_columns + y ELSE -1

(* What one midi_event call leaves behind, before any branch acts *)
Base ==
  [bank |-> midimix_bank, mute |-> mute, solo |-> solo, level |-> level,
   balance |-> balance, master |-> master_level, pending |-> pending_refresh_queue,
   armed |-> armed, selected |-> selected_chain, toggled |-> toggled_pads,
   log |-> <<>>, ret |-> "None", exc |-> "none"]

(* A bank button that toggles the selector instead of setting it *)
OnBank_Toggles(b) ==
  LET r == Refresh(1 - midimix_bank)
  IN  [Base EXCEPT !.bank = 1 - midimix_bank,
                   !.log = <<SetBank(1 - midimix_bank)>> \o r.log,
                   !.exc = r.exc,
                   !.ret = IF r.exc = "none" THEN "True" ELSE "raised"]

(* note == bank_left_note / bank_right_note: set the bank, refresh, return True *)
OnBank(b) ==
  LET r == Refresh(b)
  IN  [Base EXCEPT !.bank = b,
                   !.log = <<SetBank(b)>> \o r.log,
                   !.exc = r.exc,
                   !.ret = IF r.exc = "none" THEN "True" ELSE "raised"]

(* note == mute_note *)
OnMute(channel, note) ==
  LET index == BankIndex(channel, midimix_bank)
      val == IF mute[index] # 0 THEN 0 ELSE 1
  IN  [Base EXCEPT !.mute = [mute EXCEPT ![index] = val],
                   !.log = <<Call("set_mute", index, val), NoteOn(channel, note, val)>>,
                   !.ret = "True"]

(* note == solo_note *)
OnSolo(channel, note) ==
  LET index == BankIndex(channel, midimix_bank)
      val == IF solo[index] # 0 THEN 0 ELSE 1
  IN  [Base EXCEPT !.solo = [solo EXCEPT ![index] = val],
                   !.pending = pending_refresh_queue \cup {"solo"},
                   !.log = <<Call("set_solo", index, val),
                             Call("pending_refresh_queue_add", 0, 0),
                             NoteOn(channel, note, val)>>,
                   !.ret = "True"]

(* note == rec_note *)
OnRec(channel, note) ==
  LET index == BankIndex(channel, midimix_bank)
      val == 1 - armed[index]
  IN  IF index < zctrls_len - 1
      THEN IF rec_mode = 0
           THEN [Base EXCEPT !.selected = index,
                             !.log = <<Call("select_chain_by_index", index, 0)>>,
                             !.ret = "True"]
           ELSE IF index >= layers_len
                THEN [Base EXCEPT !.exc = "IndexError", !.ret = "raised"]
                ELSE [Base EXCEPT !.armed = [armed EXCEPT ![index] = val],
                                  !.log = <<Call("toggle_arm", index, val),
                                            NoteOn(channel, note, val)>>,
                                  !.ret = "True"]
      ELSE [Base EXCEPT !.ret = "True"]

(* A pad press that accepts one row too many *)
OnPad_OffByOne(channel, note) ==
  LET pad == get_pad_from_xy(channel, note - PAD_NOTE_MIN)
  IN  IF note - PAD_NOTE_MIN <= PAD_HEIGHT /\ note - PAD_NOTE_MIN > -1
      THEN IF pad >= 0
           THEN [Base EXCEPT !.toggled = IF pad \in toggled_pads
                                         THEN toggled_pads \ {pad}
                                         ELSE toggled_pads \cup {pad},
                             !.log = <<Call("togglePlayState", pad, 0)>>,
                             !.ret = "True"]
           ELSE [Base EXCEPT !.ret = "True"]
      ELSE Base

(* launch pad button press *)
OnPad(channel, note) ==
  LET x == channel
      y == note - PAD_NOTE_MIN
      pad == get_pad_from_xy(x, y)
  IN  IF y < PAD_HEIGHT /\ y > -1
      THEN IF pad >= 0
           THEN [Base EXCEPT !.toggled = IF pad \in toggled_pads
                                         THEN toggled_pads \ {pad}
                                         ELSE toggled_pads \cup {pad},
                             !.log = <<Call("togglePlayState", pad, 0)>>,
                             !.ret = "True"]
           ELSE [Base EXCEPT !.ret = "True"]
      ELSE Base

(* evtype == 0x9 *)
OnNoteOn(ev) ==
  LET channel == decode_channel(ev)
      note == EvNote(ev)
  IN  IF note = bank_left_note THEN OnBank(0)
      ELSE IF note = bank_right_note THEN OnBank(1)
      ELSE IF note = mute_note THEN OnMute(channel, note)
      ELSE IF note = solo_note THEN OnSolo(channel, note)
      ELSE IF note = rec_note THEN OnRec(channel, note)
      ELSE IF note # 0 /\ channel >= 0 /\ channel <= 7 THEN OnPad(channel, note)
      ELSE Base

(* A knob position counted from 1 *)
PanKnobIndex_OneBased(ccnum) ==
  IF \E n \in 1..Len(panknobs_ccnum) : panknobs_ccnum[n] = ccnum
  THEN CHOOSE n \in 1..Len(panknobs_ccnum) : panknobs_ccnum[n] = ccnum
  ELSE -1

(* Position of ccnum in panknobs_ccnum, 0-based; -1 when it is not there *)
PanKnobIndex(ccnum) ==
  IF \E n \in 1..Len(panknobs_ccnum) : panknobs_ccnum[n] = ccnum
  THEN (CHOOSE n \in 1..Len(panknobs_ccnum) : panknobs_ccnum[n] = ccnum) - 1
  ELSE -1

(* evtype == 0xB *)
OnControlChange(ev) ==
  LET channel == decode_channel(ev)
      ccnum == EvNote(ev)
      ccval == EvVal(ev)
  IN  IF channel = master_chnum /\ ccnum = master_ccnum
      THEN [Base EXCEPT !.master = ccval,
                        !.log = <<Call("set_master_level", 0, ccval)>>,
                        !.ret = "True"]
      ELSE IF ccnum = fader_ccnum
      THEN LET index == BankIndex(channel, midimix_bank)
           IN  [Base EXCEPT !.level = [level EXCEPT ![index] = ccval],
                            !.log = <<Call("set_level", index, ccval)>>,
                            !.ret = "True"]
      ELSE IF PanKnobIndex(ccnum) >= 0
      THEN LET index == BankIndex(PanKnobIndex(ccnum), midimix_bank)
           IN  [Base EXCEPT !.balance = [balance EXCEPT ![index] = 2 * ccval - 127],
                            !.log = <<Call("set_balance", index, 2 * ccval - 127)>>,
                            !.ret = "True"]
      ELSE [Base EXCEPT !.log = <<ControlChange(channel, ccnum, ccval)>>]

(* A dispatch that handles NoteOff like NoteOn *)
MidiEvent_NoteOffAsOn(ev) ==
  IF EvType(ev) \in {8, 9} THEN OnNoteOn(ev)
  ELSE IF EvType(ev) = 11 THEN OnControlChange(ev)
  ELSE Base

(* The outcome of midi_event(ev) *)
MidiEvent(ev) ==
  IF EvType(ev) = 9 THEN OnNoteOn(ev)
  ELSE IF EvType(ev) = 11 THEN OnControlChange(ev)
  ELSE Base

---------------------------------------------------------------------------
(* Event words the transport delivers in the model *)
EvChannels == 0..15
BankChannels == {0, 15}
PadChannels == {0, 3, 4, 7, 8}
PadNotes == {PAD_NOTE_MIN - 1, PAD_NOTE_MIN, PAD_NOTE_MAX, PAD_NOTE_MAX + 1}
NoteOnWords ==
  {Pack(0, 144 + ch, n, 100) : ch \in BankChannels, n \in {bank_left_note, bank_right_note}}
  \cup {Pack(0, 144 + ch, n, 100) : ch \in EvChannels, n \in {mute_note, solo_note, rec_note}}
  \cup {Pack(0, 144 + ch, n, 100) : ch \in PadChannels, n \in PadNotes}
  \cup {Pack(0, 144, 0, 100)}
FaderWords == {Pack(0, 176 + ch, fader_ccnum, 127) : ch \in EvChannels}
              \cup {Pack(0, 176 + 2, fader_ccnum, 0)}
MasterWords == {Pack(0, 176, master_ccnum, 0), Pack(0, 176, master_ccnum, 127),
                Pack(0, 176 + 1, master_ccnum, 127)}
PanWords == {Pack(0, 176, panknobs_ccnum[n], 127) : n \in 1..Len(panknobs_ccnum)}
            \cup {Pack(0, 176, 48, 0), Pack(0, 176 + 9, 50, 64), Pack(0, 176 + 9, 55, 64)}
OtherCcWords == {Pack(0, 176, 16, 5), Pack(0, 176 + 9, 56, 5), Pack(0, 176 + 3, 0, 0)}
(* Other event types, other devices, data bytes with the top bit set *)
OddWords == {Pack(2, 128 + 3, mute_note, 100), Pack(0, 224, 0, 64),
             Pack(2, 144 + 5, 60, 100), Pack(127, 144 + 3, 128 + mute_note, 228),
             Pack(7, 176 + 2, 128 + fader_ccnum, 128 + 64)}
EventWords == NoteOnWords \cup FaderWords \cup MasterWords \cup PanWords
              \cup OtherCcWords \cup OddWords

(* Words of every event type and channel, from several devices, with and  *)
(* without the top bit of the data bytes                                   *)
WideDevices == {0, 2, 127}
WideNumbers == {0, 60, 128 + mute_note, 255}
WideValues == {100, 128 + 100}
WideWords ==
  {Pack(d, 16 * t + ch, n, v) :
     d \in WideDevices, t \in 0..15, ch \in EvChannels, n \in WideNumbers, v \in WideValues}

(* midi_event for a word drawn from words *)
MidiEventOver(words) ==
  /\ CanStep
  /\ \E ev \in words :
    \E r \in {MidiEvent(ev)} :
        /\ Step("midi_event", <<ev>>)
        /\ midimix_bank' = r.bank
        /\ mute' = r.mute
        /\ solo' = r.solo
        /\ level' = r.level
        /\ balance' = r.balance
        /\ master_level' = r.master
        /\ pending_refresh_queue' = r.pending
        /\ armed' = r.armed
        /\ selected_chain' = r.selected
        /\ toggled_pads' = r.toggled
        /\ log' = r.log
        /\ ret' = r.ret
        /\ exc' = r.exc
        /\ Delivered
        /\ UNCHANGED <<rec_mode, zctrls_len, layers_len, curlayer, zynpad_columns>>

midi_event == MidiEventOver(EventWords)

(* midi_event for any word of the transport *)
midi_event_any == MidiEventOver(WideWords)

---------------------------------------------------------------------------
(* update_pad.  get_xy_from_pad belongs to the sequencer; the model draws  *)
(* the (col, row) it returns, negative coordinates for an unknown pad      *)
(* included.                                                               *)
(* A colour choice that ignores the mode flag *)
PadColour_ModeIgnored(state, mode) ==
  IF state = SEQ_STOPPED THEN COLOUR_RED
  ELSE IF state = SEQ_PLAYING THEN COLOUR_GREEN
  ELSE IF state = SEQ_STOPPING THEN COLOUR_ORANGE
  ELSE IF state = SEQ_STARTING THEN COLOUR_GREEN_BLINK
  ELSE COLOUR_RED

(* The velocity chosen in the try block of update_pad *)
PadColour(state, mode) ==
  IF mode = 0 THEN COLOUR_RED
  ELSE IF state = SEQ_STOPPED THEN COLOUR_RED
  ELSE IF state = SEQ_PLAYING THEN COLOUR_GREEN
  ELSE IF state = SEQ_STOPPING THEN COLOUR_ORANGE
  ELSE IF state = SEQ_STARTING THEN COLOUR_GREEN_BLINK
  ELSE COLOUR_RED

(* The guard that rejects a pad position *)
PadOutOfBounds(col, row) == col >= PAD_WIDTH \/ row >= PAD_HEIGHT

UpdatePad(col, row, state, mode) ==
  IF PadOutOfBounds(col, row)
  THEN [log |-> <<>>, ret |-> "False"]
  ELSE [log |-> <<NoteOn(col, PAD_NOTE_MIN + row, PadColour(state, mode))>>,
        ret |-> "None"]

PadCols == {-1, 0, 7, 8}
PadRows == {-1, 0, 4, 5}
PadStates == {SEQ_STOPPED, SEQ_PLAYING, SEQ_STOPPING, SEQ_STARTING, 9}
PadModes == {0, 1}
(* Every position with one state, every state and mode at two positions *)
PadInputs ==
  {<<col, row, SEQ_PLAYING, 1>> : col \in PadCols, row \in PadRows}
  \cup {<<0, 0, state, mode>> : state \in PadStates, mode \in PadModes}
  \cup {<<7, 4, state, 1>> : state \in PadStates}

update_pad ==
  /\ CanStep
  /\ \E a \in PadInputs :
    \E r \in {UpdatePad(a[1], a[2], a[3], a[4])} :
        /\ Step("update_pad", a)
        /\ log' = r.log
        /\ ret' = r.ret
        /\ exc' = "none"
        /\ Delivered
        /\ UNCHANGED <<midimix_bank, collab>>

---------------------------------------------------------------------------
Next == init \/ end \/ refresh \/ midi_event \/ update_pad

Spec == Init /\ [][Next]_vars

(* One midi_event call on any word, from every constructed state *)
NextDecode == midi_event_any

SpecDecode == Init /\ [][NextDecode]_vars

---------------------------------------------------------------------------
(* Vocabulary of the properties *)
IsNoteOnEvent(n) == op = "midi_event" /\ EvType(arg[1]) = 9 /\ EvNote(arg[1]) = n
IsCcEvent == op = "midi_event" /\ EvType(arg[1]) = 11
WasBankEvent ==
  /\ pre.op = "midi_event"
  /\ EvType(pre.arg[1]) = 9
  /\ EvNote(pre.arg[1]) \in {bank_left_note, bank_right_note}
EvChannel == (arg[1] \div 65536) % 16
NoteOns(l) == SelectSeq(l, LAMBDA e : e.k = "note_on")
MixerUnchanged ==
  /\ mute = pre.mute
  /\ solo = pre.solo
  /\ level = pre.level
  /\ balance = pre.balance
  /\ master_level = pre.master
CollabUnchanged ==
  /\ MixerUnchanged
  /\ armed = pre.armed
  /\ selected_chain = pre.selected
  /\ toggled_pads = pre.toggled
  /\ pending_refresh_queue = pre.pending
NoMixerCall == \A k \in 1..Len(log) : ~IsMixerCall(log[k])

---------------------------------------------------------------------------
(* C1: a NoteOn for the mute-note on physical channel c in 0-7, in either  *)
(* bank b, flips the mute of strip c + 8*b and of no other strip, emits    *)
(* exactly one message NoteOn(c, mute-note, new mute value), returns       *)
(* consumed and leaves BankState unchanged.                                *)
C1_MuteToggle ==
  (IsNoteOnEvent(mute_note) /\ EvChannel \in 0..7) =>
    LET c == EvChannel
        i == c + 8 * pre.bank
    IN  /\ pre.bank \in {0, 1}
        /\ mute = [pre.mute EXCEPT ![i] = 1 - pre.mute[i]]
        /\ solo = pre.solo /\ level = pre.level /\ balance = pre.balance
        /\ master_level = pre.master
        /\ Sends(log) = <<NoteOn(c, mute_note, mute[i])>>
        /\ ret = "True"
        /\ midimix_bank = pre.bank

C1_Witness ==
  /\ IsNoteOnEvent(mute_note)
  /\ EvChannel = 3
  /\ pre.bank = 1
  /\ pre.mute[11] = 0
  /\ mute[11] = 1
  /\ mute[3] = pre.mute[3]
  /\ Sends(log) = <<NoteOn(3, mute_note, 1)>>

(* C2: a mute-note, solo-note, fader-CC or pan-knob-CC event whose logical *)
(* index is not below the live strip count mutates nothing in the mixer    *)
(* and emits no feedback.                                                  *)
C2_IsStripEvent ==
  \/ IsNoteOnEvent(mute_note)
  \/ IsNoteOnEvent(solo_note)
  \/ /\ IsCcEvent
     /\ ~(EvChannel = master_chnum /\ EvNote(arg[1]) = master_ccnum)
     /\ EvNote(arg[1]) \in {fader_ccnum} \cup (48..55)
C2_Index ==
  IF IsCcEvent /\ EvNote(arg[1]) # fader_ccnum
  THEN (EvNote(arg[1]) - 48) + 8 * pre.bank
  ELSE EvChannel + 8 * pre.bank
C2_OutOfRangeIgnored ==
  (C2_IsStripEvent /\ C2_Index >= zctrls_len) =>
    (NoMixerCall /\ MixerUnchanged /\ Sends(log) = <<>>)

(* C3: BankState is always 0 or 1; init sets it to 0, a bank-left NoteOn   *)
(* to 0, a bank-right NoteOn to 1, and every other operation leaves it as  *)
(* it was.                                                                 *)
C3_BankState ==
  /\ midimix_bank \in {0, 1}
  /\ (op = "init" => midimix_bank = 0)
  /\ (IsNoteOnEvent(bank_left_note) => midimix_bank = 0)
  /\ (IsNoteOnEvent(bank_right_note) => midimix_bank = 1)
  /\ (~(\/ op = "init"
        \/ IsNoteOnEvent(bank_left_note)
        \/ IsNoteOnEvent(bank_right_note)) => midimix_bank = pre.bank)

C3_Witness ==
  /\ op = "midi_event"
  /\ IsNoteOnEvent(solo_note)
  /\ WasBankEvent
  /\ pre.bank = 1
  /\ midimix_bank = 1

(* C4 as stated: after end() BankState is 0 whatever it was before.        *)
C4_EndResetsBank == op = "end" => midimix_bank = 0

(* C4 as amended: end() leaves BankState as it was before the call.        *)
C4_EndKeepsBank == op = "end" => midimix_bank = pre.bank

C4_Witness == op = "end" /\ pre.bank = 1 /\ midimix_bank = 1 /\ Len(log) = 1024

(* C5: a bank-left (bank-right) NoteOn sets BankState to 0 (1), then does  *)
(* one full refresh with the new BankState and returns consumed; exactly   *)
(* one bank indicator is lit, the one of the new bank; no mixer state is   *)
(* mutated.                                                                *)
C5_BankIndicators(b) ==
  /\ SelectSeq(log, LAMBDA e : e.k = "note_on" /\ e.num = bank_left_note)
       = <<NoteOn(0, bank_left_note, 1 - b)>>
  /\ SelectSeq(log, LAMBDA e : e.k = "note_on" /\ e.num = bank_right_note)
       = <<NoteOn(0, bank_right_note, b)>>
C5_FullRefresh ==
  /\ Len(SelectSeq(log, LAMBDA e : e.k = "note_on" /\ e.num = mute_note)) = 8
  /\ Len(SelectSeq(log, LAMBDA e : e.k = "note_on" /\ e.num = solo_note)) = 8
  /\ Len(SelectSeq(log, LAMBDA e : e.k = "note_on" /\ e.num = rec_note)) = 8
  /\ Len(SelectSeq(log, LAMBDA e : e.k = "ccontrol_change")) = 8
C5_BankSwitch ==
  \A b \in {0, 1} :
    IsNoteOnEvent(IF b = 0 THEN bank_left_note ELSE bank_right_note) =>
      /\ midimix_bank = b
      /\ log[1] = SetBank(b)
      /\ C5_BankIndicators(b)
      /\ C5_FullRefresh
      /\ ret = "True"
      /\ exc = "none"
      /\ CollabUnchanged

(* C6: in refresh, a physical channel whose logical index is not below the *)
(* live strip count gets only NoteOn mute=0 and NoteOn solo=0, no rec      *)
(* NoteOn and no pan ControlChange; a channel whose index is in range gets *)
(* mute, solo and rec NoteOn and one pan ControlChange with the mixer's    *)
(* values.                                                                 *)
C6_For(i, e) ==
  \/ e.k = "note_on" /\ e.num \in {mute_note, solo_note, rec_note} /\ e.ch % 8 = i
  \/ e.k = "ccontrol_change" /\ e.num = 48 + i
C6_Messages(i) == SelectSeq(log, LAMBDA e : C6_For(i, e))
C6_Kinds(i) == {<<C6_Messages(i)[k].k, C6_Messages(i)[k].num>> : k \in 1..Len(C6_Messages(i))}
C6_RefreshOutOfRange ==
  op = "refresh" =>
    \A i \in 0..7 :
      LET index == i + 8 * midimix_bank
          m == C6_Messages(i)
      IN  IF index >= zctrls_len
          THEN /\ Len(m) = 2
               /\ m[1].num = mute_note /\ m[1].val = 0
               /\ m[2].num = solo_note /\ m[2].val = 0
          ELSE /\ Len(m) = 4
               /\ m[1].num = mute_note /\ m[1].val = mute[index]
               /\ m[2].num = solo_note /\ m[2].val = solo[index]
               /\ m[3].num = rec_note
               /\ m[4].k = "ccontrol_change"
               /\ m[4].val = (balance[index] + 127) \div 2

(* C7: two refreshes in succession, with nothing changed in between, emit  *)
(* the same messages (the refresh a bank button performs counts as the     *)
(* first of the two), and refresh changes neither BankState nor any mixer, *)
(* recorder or selection state.                                            *)
C7_RefreshIdempotent ==
  op = "refresh" =>
    /\ midimix_bank = pre.bank
    /\ CollabUnchanged
    /\ (pre.op = "refresh" \/ WasBankEvent) => Sends(log) = Sends(pre.log)

C7_Witness ==
  /\ op = "refresh"
  /\ WasBankEvent
  /\ midimix_bank = 1
  /\ zctrls_len = 11
  /\ exc = "none"
  /\ Len(Sends(log)) = 35
  /\ Sends(log) = Sends(pre.log)

(* C8: light_off emits exactly 128*8 = 1024 messages, all NoteOn with      *)
(* velocity 0, one for each pair (channel 0-7, note 0-127); end() emits    *)
(* exactly that sequence and nothing else.  light_off runs in end and in   *)
(* init, where it is the only source of NoteOn messages.                   *)
C8_AllOff(l) ==
  /\ Len(l) = 1024
  /\ \A k \in 1..Len(l) : l[k].k = "note_on" /\ l[k].val = 0
  /\ {<<l[k].ch, l[k].num>> : k \in 1..Len(l)} = (0..7) \X (0..127)
C8_LightOff ==
  /\ (op = "end" => C8_AllOff(log))
  /\ (op = "init" => C8_AllOff(NoteOns(log)))

C8_Witness == op = "end" /\ Len(log) = 1024 /\ log[1024] = NoteOn(7, 127, 0)

(* C9: init sets BankState to 0 before it sends anything, then sends the   *)
(* light_off NoteOns, then the 12-byte sysex exactly once, then the 8      *)
(* pan-knob ring-mode ControlChanges, then the 8 auxiliary-knob ones.      *)
C9_InitOrder ==
  op = "init" =>
    /\ Len(log) = 1 + 1024 + 1 + 8 + 8
    /\ log[1] = SetBank(0)
    /\ midimix_bank = 0
    /\ \A k \in 2..1025 : log[k].k = "note_on" /\ log[k].val = 0
    /\ log[1026] = [k |-> "sysex", bytes |-> <<240, 71, 0, 115, 96, 0, 4, 66, 0, 0, 0, 247>>]
    /\ \A k \in 1..8 : log[1026 + k] = ControlChange(0, 48 + (k - 1) + 8, 3)
    /\ \A k \in 1..8 : log[1034 + k] = ControlChange(0, 16 + (k - 1) + 8, 2)

C9_Witness == op = "init" /\ pre.bank = 1 /\ midimix_bank = 0 /\ Len(log) = 1042

(* C10: update_pad for a pad whose resolved position lies outside the 8x5  *)
(* grid (col not in 0-7 or row not in 0-4, negative coordinates included)  *)
(* returns failure and emits no message.                                   *)
C10_PadRejected ==
  (op = "update_pad" /\ (arg[1] \notin 0..7 \/ arg[2] \notin 0..4)) =>
    (ret = "False" /\ Sends(log) = <<>>)

(* C11: for every pad inside the 8x5 grid update_pad emits exactly one     *)
(* message, NoteOn(channel = col, note = PAD_NOTE_MIN + row, velocity =    *)
(* colour); the colour is Red (3) whenever mode = 0, and otherwise         *)
(* Stopped -> 3, Playing -> 1, Stopping -> 5, Starting -> 2, other -> 3.   *)
C11_InGrid == op = "update_pad" /\ arg[1] \in 0..7 /\ arg[2] \in 0..4

C11_Colour ==
  IF arg[4] = 0 THEN 3
  ELSE CASE arg[3] = SEQ_STOPPED -> 3
         [] arg[3] = SEQ_PLAYING -> 1
         [] arg[3] = SEQ_STOPPING -> 5
         [] arg[3] = SEQ_STARTING -> 2
         [] OTHER -> 3

C11_PadNoteOn ==
  C11_InGrid =>
    /\ exc = "none"
    /\ log = <<NoteOn(arg[1], PAD_NOTE_MIN + arg[2], C11_Colour)>>

C11_Witness ==
  /\ op = "update_pad"
  /\ arg = <<7, 4, SEQ_STOPPING, 1>>
  /\ log = <<NoteOn(7, 57, 5)>>

(* C12: update_pad returns a definite boolean: true whenever it emitted    *)
(* the pad's NoteOn, false only when the pad was rejected.                 *)
C12_DefiniteBoolean ==
  op = "update_pad" =>
    ret = (IF Sends(log) # <<>> THEN "True" ELSE "False")

(* C13: for every event word midi_event decodes eventType = bits 23-20,    *)
(* channel = bits 19-16, number = bits 15-8 masked to 7 bits and value =   *)
(* bits 7-0 masked to 7 bits, whatever the device index in bits 31-24; the *)
(* word built from (device 2, type 0x9, channel 5, number 60, value 100)   *)
(* decodes to NoteOn, channel 5, number 60, value 100.                     *)
C13_Bit(w, i) == (w \div (2 ^ i)) % 2

(* The n bits of w from bit lo upward, read as a number *)
RECURSIVE C13_Field(_, _, _)
C13_Field(w, lo, n) ==
  IF n = 0 THEN 0 ELSE C13_Bit(w, lo) + 2 * C13_Field(w, lo + 1, n - 1)

C13_Decode ==
  op = "midi_event" =>
    /\ decoded.evtype = C13_Field(arg[1], 20, 4)
    /\ decoded.channel = C13_Field(arg[1], 16, 4)
    /\ decoded.number = C13_Field(arg[1], 8, 7)
    /\ decoded.value = C13_Field(arg[1], 0, 7)
    /\ \A d \in WideDevices :
         LET w == (arg[1] % 16777216) + d * 16777216
         IN  /\ Decode(w).evtype = decoded.evtype
             /\ Decode(w).channel = decoded.channel
             /\ Decode(w).number = decoded.number
             /\ Decode(w).value = decoded.value
    /\ arg[1] = 2 * 16777216 + 9 * 1048576 + 5 * 65536 + 60 * 256 + 100 =>
         /\ decoded.evtype = 9
         /\ decoded.channel = 5
         /\ decoded.number = 60
         /\ decoded.value = 100

C13_Witness ==
  /\ op = "midi_event"
  /\ arg[1] = Pack(2, 144 + 5, 60, 100)
  /\ decoded = [evtype |-> 9, idev |-> 2, channel |-> 5, number |-> 60, value |-> 100]

(* C14: for every event word whose event-type nibble is neither 0x9 nor    *)
(* 0xB midi_event is a no-op: it returns not consumed, emits no message,   *)
(* and leaves the bank selector and all mixer, sequencer, selection and    *)
(* recorder state unchanged.                                               *)
C14_Unhandled == op = "midi_event" /\ C13_Field(arg[1], 20, 4) \notin {9, 11}

C14_NoOp ==
  C14_Unhandled =>
    /\ ret = "None"
    /\ exc = "none"
    /\ log = <<>>
    /\ midimix_bank = pre.bank
    /\ MixerUnchanged
    /\ CollabUnchanged

C14_Witness ==
  /\ op = "midi_event"
  /\ arg[1] = Pack(2, 128 + 3, 128 + mute_note, 100)
  /\ decoded.evtype = 8
  /\ decoded.number = mute_note
  /\ ret = "None"
  /\ log = <<>>

(* C15: no public operation raises: for every strip count, every           *)
(* root-layer count, both banks, both rec-modes and every event word,      *)
(* refresh and midi_event run to completion and return a result (no use of *)
(* an unassigned pan position, no out-of-range layer lookup).              *)
C15_NoRaise ==
  op \in {"refresh", "midi_event"} => (exc = "none" /\ ret # "raised")

(* C16: a NoteOn of the rec-note on channel c, with i = c + 8 * bank:      *)
(* if i < strip count - 1 and rec-mode = 0, exactly strip i is selected    *)
(* and no message is emitted; if i < strip count - 1 and rec-mode = 1, the *)
(* arm state of the recorder channel of layer i is toggled exactly once    *)
(* and exactly one NoteOn(c, rec-note, new arm state) is emitted; if       *)
(* i >= strip count - 1 nothing is selected, toggled or emitted.  In all   *)
(* three cases the event is consumed and the bank selector is unchanged.   *)
C16_Index == EvChannel + 8 * pre.bank

C16_RecNote ==
  IsNoteOnEvent(rec_note) =>
    /\ ret = "True"
    /\ midimix_bank = pre.bank
    /\ IF C16_Index < zctrls_len - 1 /\ rec_mode = 0
       THEN /\ selected_chain = C16_Index
            /\ log = <<Call("select_chain_by_index", C16_Index, 0)>>
            /\ armed = pre.armed
       ELSE IF C16_Index < zctrls_len - 1
       THEN /\ armed = [pre.armed EXCEPT ![C16_Index] = 1 - @]
            /\ log = <<Call("toggle_arm", C16_Index, armed[C16_Index]),
                       NoteOn(EvChannel, rec_note, armed[C16_Index])>>
            /\ selected_chain = pre.selected
       ELSE /\ log = <<>>
            /\ armed = pre.armed
            /\ selected_chain = pre.selected

(* C17: a NoteOn on channel x in 0-7 whose number is none of the bank,     *)
(* mute, solo or rec notes, with y = number - PAD_NOTE_MIN: if y is in 0-4 *)
(* the pad at (x, y) is resolved and its play state toggled exactly once   *)
(* (no toggle when no pad exists there), no message is emitted, the event  *)
(* is consumed, and the outcome neither depends on the bank selector nor   *)
(* changes it or the mixer; if y is outside 0-4 the event is not consumed  *)
(* and nothing is toggled or emitted.                                      *)
C17_IsPadEvent ==
  /\ op = "midi_event"
  /\ EvType(arg[1]) = 9
  /\ EvChannel \in 0..7
  /\ EvNote(arg[1]) \notin {bank_left_note, bank_right_note, mute_note, solo_note, rec_note}

C17_Y == EvNote(arg[1]) - PAD_NOTE_MIN

(* The sequencer has a pad at (x, y) *)
C17_PadExists == EvChannel < zynpad_columns /\ C17_Y < zynpad_columns

C17_Pad == EvChannel * zynpad_columns + C17_Y

C17_PadPress ==
  C17_IsPadEvent =>
    /\ exc = "none"
    /\ midimix_bank = pre.bank
    /\ MixerUnchanged
    /\ armed = pre.armed
    /\ selected_chain = pre.selected
    /\ Sends(log) = <<>>
    /\ IF C17_Y \in 0..4
       THEN /\ ret = "True"
            /\ IF C17_PadExists
               THEN /\ log = <<Call("togglePlayState", C17_Pad, 0)>>
                    /\ toggled_pads = (pre.toggled \ {C17_Pad}) \cup ({C17_Pad} \ pre.toggled)
               ELSE /\ log = <<>>
                    /\ toggled_pads = pre.toggled
       ELSE /\ ret = "None"
            /\ log = <<>>
            /\ toggled_pads = pre.toggled

C17_Witness ==
  /\ op = "midi_event"
  /\ arg[1] = Pack(0, 144 + 3, PAD_NOTE_MIN, 100)
  /\ pre.bank = 1
  /\ midimix_bank = 1
  /\ toggled_pads = {12}
  /\ ret = "True"

(* C18: ControlChange routing: the master control (master channel and      *)
(* master cc), the fader cc and a pan-knob cc mutate exactly their one     *)
(* target (master level, level of strip channel + 8 * bank, balance of     *)
(* strip knob-position + 8 * bank), emit no message and are consumed;      *)
(* every other ControlChange mutates no state, emits exactly one           *)
(* ControlChange with the identical channel, cc number and value, and is   *)
(* not consumed.                                                           *)
C18_Cc == EvNote(arg[1])
C18_Val == EvVal(arg[1])

C18_Frame ==
  /\ exc = "none"
  /\ midimix_bank = pre.bank
  /\ mute = pre.mute
  /\ solo = pre.solo
  /\ armed = pre.armed
  /\ selected_chain = pre.selected
  /\ toggled_pads = pre.toggled
  /\ pending_refresh_queue = pre.pending

C18_CcRouting ==
  IsCcEvent =>
    /\ C18_Frame
    /\ IF EvChannel = 0 /\ C18_Cc = 14
       THEN /\ master_level = C18_Val
            /\ level = pre.level
            /\ balance = pre.balance
            /\ log = <<Call("set_master_level", 0, C18_Val)>>
            /\ ret = "True"
       ELSE IF C18_Cc = 7
       THEN /\ level = [pre.level EXCEPT ![EvChannel + 8 * pre.bank] = C18_Val]
            /\ master_level = pre.master
            /\ balance = pre.balance
            /\ log = <<Call("set_level", EvChannel + 8 * pre.bank, C18_Val)>>
            /\ ret = "True"
       ELSE IF C18_Cc \in 48..55
       THEN /\ balance = [pre.balance EXCEPT ![(C18_Cc - 48) + 8 * pre.bank] = 2 * C18_Val - 127]
            /\ master_level = pre.master
            /\ level = pre.level
            /\ log = <<Call("set_balance", (C18_Cc - 48) + 8 * pre.bank, 2 * C18_Val - 127)>>
            /\ ret = "True"
       ELSE /\ CollabUnchanged
            /\ log = <<ControlChange(EvChannel, C18_Cc, C18_Val)>>
            /\ ret = "None"

C18_Witness ==
  /\ op = "midi_event"
  /\ arg[1] = Pack(0, 176 + 9, 50, 64)
  /\ pre.bank = 1
  /\ pre.balance[10] = 0
  /\ balance[10] = 1
  /\ ret = "True"

(* C19: for every incoming event word (channel nibble 0-15), every strip   *)
(* index midi_event passes to the mixer (mute, solo, level, balance) or to *)
(* channel selection is a logical channel index in 0-15.                   *)
C19_StripCalls == {"set_mute", "set_solo", "set_level", "set_balance", "select_chain_by_index"}

C19_IndexInRange ==
  op = "midi_event" =>
    \A k \in 1..Len(log) :
      log[k].k \in C19_StripCalls => log[k].idx \in 0..15

(* C20: LED sync across bank switches: starting from init followed by a    *)
(* refresh, after any sequence of mute-note, solo-note, bank-left and      *)
(* bank-right NoteOn events on channels 0-7, for every physical channel c  *)
(* in 0-7 whose strip c + 8 * bank exists, the last NoteOn sent on         *)
(* (c, mute-note) carries the mute state of strip c + 8 * bank and the     *)
(* last NoteOn on (c, solo-note) its solo state.                           *)
C20_LedSync ==
  sync = "synced" =>
    \A c \in 0..7 :
      c + 8 * midimix_bank < zctrls_len =>
        /\ leds[<<c, mute_note>>] = mute[c + 8 * midimix_bank]
        /\ leds[<<c, solo_note>>] = solo[c + 8 * midimix_bank]

=============================================================================
